---- MODULE Spec2Model ----
(***************************************************************************)
(* Model of parseATR.py (pyscard-contrib): the Answer-To-Reset decoder.    *)
(*                                                                         *)
(* Bytes are integers 0..255, Python lists are sequences (index k of the   *)
(* code is index k+1 here), Python strings that the code builds character  *)
(* by character are sequences of one-character strings, and a raised       *)
(* exception is an outcome value ("IndexError", "ParseAtrException").      *)
(***************************************************************************)
EXTENDS Integers, Sequences, FiniteSets, TLC

\* ------------------------------------------------------------------ bounds

\* longest byte sequence handed to the decoder
MaxLen == 5

\* number of decoding threads of the concurrent specification
NThreads == 2

\* longest string handed to normalize on its own
MaxTxt == 5

\* longest run of bytes after the category indicator byte of a block handed
\* to analyse_historical_bytes on its own
MaxHb == 5

\* longest run of bytes after the tag/length byte of a block handed to
\* compact_tlv on its own
MaxTlv == 3

\* longest run of bytes after TS of the sequences with a long chain of TDi
MaxChain == 7
MaxWalk == 4

\* ------------------------------------------------------------- bit helpers

Byte == 0..255

\* the bit of weight w of the non-negative integer a
BitOf(a, w) == (a \div w) % 2

\* Python's  a & b,  a | b,  a ^ b  on values below 2^8, bit by bit
BitAnd(a, b) ==
    1 * (BitOf(a, 1) * BitOf(b, 1)) + 2 * (BitOf(a, 2) * BitOf(b, 2))
  + 4 * (BitOf(a, 4) * BitOf(b, 4)) + 8 * (BitOf(a, 8) * BitOf(b, 8))
  + 16 * (BitOf(a, 16) * BitOf(b, 16)) + 32 * (BitOf(a, 32) * BitOf(b, 32))
  + 64 * (BitOf(a, 64) * BitOf(b, 64)) + 128 * (BitOf(a, 128) * BitOf(b, 128))

BitXor(a, b) ==
    1 * ((BitOf(a, 1) + BitOf(b, 1)) % 2) + 2 * ((BitOf(a, 2) + BitOf(b, 2)) % 2)
  + 4 * ((BitOf(a, 4) + BitOf(b, 4)) % 2) + 8 * ((BitOf(a, 8) + BitOf(b, 8)) % 2)
  + 16 * ((BitOf(a, 16) + BitOf(b, 16)) % 2) + 32 * ((BitOf(a, 32) + BitOf(b, 32)) % 2)
  + 64 * ((BitOf(a, 64) + BitOf(b, 64)) % 2) + 128 * ((BitOf(a, 128) + BitOf(b, 128)) % 2)

\* a | b = (a & b) + (a ^ b)
BitOr(a, b) == BitAnd(a, b) + BitXor(a, b)

\* Python's  a[i:j]  for 0 <= i, clamped to the list (0-based, j exclusive)
Slice(a, i, j) ==
  LET hi == IF j > Len(a) THEN Len(a) ELSE j
  IN  IF i >= hi THEN << >> ELSE SubSeq(a, i + 1, hi)

RECURSIVE Concat(_)
\* "".join(list of character sequences)
Concat(ss) == IF ss = << >> THEN << >> ELSE Head(ss) \o Concat(Tail(ss))

\* LET x == v IN F(x), with v evaluated once, before F is
Let(v, F(_)) == CHOOSE r \in {F(x) : x \in {v}} : TRUE

\* ------------------------------------------------------- module-level data

ATR_PROTOCOL_TYPE_T0 == 0

\* initial value of the module-level variable T
T_INIT == -1

\* ------------------------------------------------------ toHexString / normalize

HexDigits == << "0", "1", "2", "3", "4", "5", "6", "7",
                "8", "9", "A", "B", "C", "D", "E", "F" >>

\* "%02X" % b
Hex2(b) == << HexDigits[(b \div 16) + 1], HexDigits[(b % 16) + 1] >>

RECURSIVE JoinWith(_, _)
JoinWith(sep, ss) ==
  IF ss = << >> THEN << >>
  ELSE IF Len(ss) = 1 THEN Head(ss)
  ELSE Head(ss) \o sep \o JoinWith(sep, Tail(ss))

\* toHexString with "%X" for "%02X": no leading zero
toHexString_nopad(bytes, pack) ==
  LET sep == IF pack THEN << >> ELSE << " " >>
  IN  JoinWith(sep, [k \in 1..Len(bytes) |->
                       IF bytes[k] < 16 THEN << HexDigits[bytes[k] + 1] >>
                       ELSE Hex2(bytes[k])])

\* toHexString(bytes, pack): sep.join(["%02X" % b for b in bytes])
toHexString(bytes, pack) ==
  LET sep == IF pack THEN << >> ELSE << " " >>
  IN  JoinWith(sep, [k \in 1..Len(bytes) |-> Hex2(bytes[k])])

\* toASCIIString(bytes): printable bytes are kept (as their code), the
\* others are replaced by "." (code 46)
toASCIIString(bytes) ==
  [k \in 1..Len(bytes) |-> IF bytes[k] > 31 /\ bytes[k] < 127 THEN bytes[k] ELSE 46]

\* the digits int(x, 16) accepts besides those of HexDigits
HexLower == << "0", "1", "2", "3", "4", "5", "6", "7",
               "8", "9", "a", "b", "c", "d", "e", "f" >>

\* int(c, 16) for one hexadecimal digit, of either case
HexVal(c) == (CHOOSE k \in 1..16 : HexDigits[k] = c \/ HexLower[k] = c) - 1

RECURSIVE Remove(_, _)
\* atr.replace(c, "")
Remove(s, c) ==
  IF s = << >> THEN << >>
  ELSE IF Head(s) = c THEN Remove(Tail(s), c)
  ELSE << Head(s) >> \o Remove(Tail(s), c)

RECURSIVE Pairs(_)
\* the while loop of normalize: cut the string in pairs, int(x, 16) of each
Pairs(s) ==
  IF Len(s) < 2 THEN << >>
  ELSE << 16 * HexVal(s[1]) + HexVal(s[2]) >> \o Pairs(SubSeq(s, 3, Len(s)))

\* normalize that drops a dangling digit
normalize_drop(atr) ==
  LET s == Remove(Remove(atr, ":"), " ")
  IN  [out |-> "ok", value |-> Pairs(s)]

\* normalize(atr): [out, value]; out = "ParseAtrException" for an odd string
normalize(atr) ==
  LET s == Remove(Remove(atr, ":"), " ")
  IN  IF Len(s) % 2 = 1
      THEN [out |-> "ParseAtrException", value |-> << >>]
      ELSE [out |-> "ok", value |-> Pairs(s)]

\* int2bin(i, padding): binary digits of i, left-padded with "0"
RECURSIVE BinDigits(_)
BinDigits(i) == IF i = 0 THEN << >> ELSE BinDigits(i \div 2) \o << HexDigits[(i % 2) + 1] >>

int2bin(i, padding) ==
  LET b == BinDigits(i)
  IN  [k \in 1..(IF padding > Len(b) THEN padding - Len(b) ELSE 0) |-> "0"] \o b

\* ------------------------------------------------------------ decomposeATR

\* a dictionary with no key
NoField == [i \in {} |-> 0]

\* a field as decomposeATR stores it: {"value": v}, no "description" key yet
\* (description is a sequence holding the description once it is set)
Field(v) == [value |-> v, description |-> << >>]

\* atr[name][i] = f
Put(d, i, f) == (i :> f) @@ d

\* (TDi | 0xEF) == 0xFF : TAi is present
TApresent(TDi) == BitOr(TDi, 239) = 255

\* TBpresent with the mask of TA: (TDi | 0xEF) == 0xFF
TBpresent_maskTA(TDi) == BitOr(TDi, 239) = 255

\* (TDi | 0xDF) == 0xFF : TBi is present
TBpresent(TDi) == BitOr(TDi, 223) = 255

\* (TDi | 0xBF) == 0xFF : TCi is present
TCpresent(TDi) == BitOr(TDi, 191) = 255

\* (TDi | 0x7F) == 0xFF : TDi is present
TDpresent(TDi) == BitOr(TDi, 127) = 255

\* ChecksumExpected on the whole of TDi, not on its low nibble
ChecksumExpected_byte(TDi) == TDi # ATR_PROTOCOL_TYPE_T0

\* (TDi & 0x0F) != ATR_PROTOCOL_TYPE_T0 : a checksum is expected
ChecksumExpected(TDi) == BitAnd(TDi, 15) # ATR_PROTOCOL_TYPE_T0

\* hb_length = TDi & 15, with TDi = T0
HbLength(T0) == BitAnd(T0, 15)

\* the locals of decomposeATR at the top of its while loop; err is set when
\* atr_txt[pointer] raised IndexError, stop when the loop ran its break
WalkInit(a) ==
  [TDi |-> a[2], pointer |-> 1, pn |-> 1,
   TA |-> NoField, TB |-> NoField, TC |-> NoField, TD |-> NoField,
   TCK |-> FALSE, err |-> FALSE, stop |-> FALSE, iters |-> 0]

\* atr_txt[pointer] after pointer += 1 (pointer is the 0-based index of the
\* code, so atr_txt[pointer] is a[pointer + 1]); IndexError sets err
ReadTA(a, st) ==
  IF st.pointer + 1 >= Len(a) THEN [st EXCEPT !.pointer = @ + 1, !.err = TRUE]
  ELSE [st EXCEPT !.pointer = @ + 1, !.TA = Put(@, st.pn, Field(a[st.pointer + 2]))]

ReadTB(a, st) ==
  IF st.pointer + 1 >= Len(a) THEN [st EXCEPT !.pointer = @ + 1, !.err = TRUE]
  ELSE [st EXCEPT !.pointer = @ + 1, !.TB = Put(@, st.pn, Field(a[st.pointer + 2]))]

ReadTC(a, st) ==
  IF st.pointer + 1 >= Len(a) THEN [st EXCEPT !.pointer = @ + 1, !.err = TRUE]
  ELSE [st EXCEPT !.pointer = @ + 1, !.TC = Put(@, st.pn, Field(a[st.pointer + 2]))]

\* ReadTD without pointer += 1: the byte under the cursor is read again
ReadTD_nostep(a, st) ==
  IF st.pointer >= Len(a) THEN [st EXCEPT !.err = TRUE]
  ELSE [st EXCEPT !.TDi = a[st.pointer + 1],
                  !.TD  = Put(@, st.pn, Field(a[st.pointer + 1])),
                  !.TCK = @ \/ ChecksumExpected(a[st.pointer + 1]),
                  !.pn  = @ + 1]

\* ReadTD without pn += 1
ReadTD_nopn(a, st) ==
  IF st.pointer + 1 >= Len(a) THEN [st EXCEPT !.pointer = @ + 1, !.err = TRUE]
  ELSE [st EXCEPT !.pointer = @ + 1,
                  !.TDi = a[st.pointer + 2],
                  !.TD  = Put(@, st.pn, Field(a[st.pointer + 2])),
                  !.TCK = @ \/ ChecksumExpected(a[st.pointer + 2])]

\* the branch of the loop that reads TDi, sets TDi, atr["TCK"] and pn
ReadTD(a, st) ==
  IF st.pointer + 1 >= Len(a) THEN [st EXCEPT !.pointer = @ + 1, !.err = TRUE]
  ELSE [st EXCEPT !.pointer = @ + 1,
                  !.TDi = a[st.pointer + 2],
                  !.TD  = Put(@, st.pn, Field(a[st.pointer + 2])),
                  !.TCK = @ \/ ChecksumExpected(a[st.pointer + 2]),
                  !.pn  = @ + 1]

\* one pass of the while body of decomposeATR
WalkIter(a, st) ==
  Let(IF TApresent(st.TDi) THEN ReadTA(a, st) ELSE st, LAMBDA s1 :
  Let(IF ~s1.err /\ TBpresent(s1.TDi) THEN ReadTB(a, s1) ELSE s1, LAMBDA s2 :
  Let(IF ~s2.err /\ TCpresent(s2.TDi) THEN ReadTC(a, s2) ELSE s2, LAMBDA s3 :
  Let(IF s3.err THEN s3
      ELSE IF TDpresent(s3.TDi) THEN ReadTD(a, s3)
      ELSE [s3 EXCEPT !.stop = TRUE], LAMBDA s4 :
  [s4 EXCEPT !.iters = @ + 1]))))

RECURSIVE Walk(_, _)
\* while pointer < len(atr_txt): ...
Walk(a, st) ==
  IF st.err \/ st.stop \/ ~(st.pointer < Len(a)) THEN st
  ELSE Let(WalkIter(a, st), LAMBDA s : Walk(a, s))

\* "ATR is truncated: %d byte%s %s missing" % (missing, t1, t2)
TruncatedWarning(missing) ==
  [text |-> "ATR is truncated: %d byte%s %s missing",
   n    |-> missing,
   s    |-> IF missing > 1 THEN << "s", "are" >> ELSE << "", "is" >>,
   hex  |-> << >>]

\* the value a call leaves behind when it raises
NoRecord ==
  [atr |-> << >>, TS |-> << >>, T0 |-> << >>,
   TA |-> NoField, TB |-> NoField, TC |-> NoField, TD |-> NoField,
   hbn |-> 0, pn |-> 0, hb |-> << >>, TCK |-> << >>,
   extra |-> << >>, warning |-> << >>]

\* Decomposed without last += 1 after the read of TCK
Decomposed_nolast(a, w) ==
  LET hb_length == HbLength(a[2])
      hb        == Slice(a, w.pointer + 1, w.pointer + 1 + hb_length)
      last0     == w.pointer + 1 + hb_length
  IN  [atr |-> a,
       TS  |-> << Field(a[1]) >>,
       T0  |-> << Field(a[2]) >>,
       TA  |-> w.TA, TB |-> w.TB, TC |-> w.TC, TD |-> w.TD,
       hbn |-> BitAnd(a[2], 15),
       pn  |-> w.pn,
       hb  |-> << Field(hb) >>,
       TCK |-> IF ~w.TCK THEN << >>
               ELSE IF last0 < Len(a) THEN << Field(a[last0 + 1]) >>
               ELSE << Field(-1) >>,
       extra   |-> IF Len(a) > last0 THEN Slice(a, last0, Len(a)) ELSE << >>,
       warning |-> IF Len(hb) < hb_length
                   THEN << TruncatedWarning(hb_length - Len(hb)) >>
                   ELSE << >>]

\* the dictionary decomposeATR builds from the bytes a once its loop has
\* ended in the state w.  Optional keys (TCK, extra, warning) are sequences:
\* empty when the key is absent.
Decomposed(a, w) ==
  LET hb_length == HbLength(a[2])
      hb        == Slice(a, w.pointer + 1, w.pointer + 1 + hb_length)
      last0     == w.pointer + 1 + hb_length
      last      == IF w.TCK THEN last0 + 1 ELSE last0
  IN  [atr |-> a,
       TS  |-> << Field(a[1]) >>,
       T0  |-> << Field(a[2]) >>,
       TA  |-> w.TA, TB |-> w.TB, TC |-> w.TC, TD |-> w.TD,
       hbn |-> BitAnd(a[2], 15),
       pn  |-> w.pn,
       hb  |-> << Field(hb) >>,
       TCK |-> IF ~w.TCK THEN << >>
               ELSE IF last0 < Len(a) THEN << Field(a[last0 + 1]) >>
               ELSE << Field(-1) >>,
       extra   |-> IF Len(a) > last THEN Slice(a, last, Len(a)) ELSE << >>,
       warning |-> IF Len(hb) < hb_length
                   THEN << TruncatedWarning(hb_length - Len(hb)) >>
                   ELSE << >>]

\* decomposeATR(atr_txt): [out, rec]
decomposeATR(atr_txt) ==
  Let(normalize(atr_txt), LAMBDA n :
    IF n.out # "ok" THEN [out |-> n.out, rec |-> NoRecord]
    ELSE IF Len(n.value) < 2 THEN [out |-> "IndexError", rec |-> NoRecord]
    ELSE Let(Walk(n.value, WalkInit(n.value)), LAMBDA w :
           IF w.err THEN [out |-> "IndexError", rec |-> NoRecord]
           ELSE [out |-> "ok", rec |-> Decomposed(n.value, w)]))

\* ------------------------------------------------------ field interpreters

\* A description is [text, args]: the pieces of the template, joined by the
\* code, and the substitution values.  A value is a number n/d or a string
\* (a sequence of pieces, or the character codes of toASCIIString).
Num(n)     == [k |-> "num", n |-> n, d |-> 1, s |-> << >>, b |-> << >>]
Frac(n, d) == [k |-> "num", n |-> n, d |-> d, s |-> << >>, b |-> << >>]
Str(s)     == [k |-> "str", n |-> 0, d |-> 1, s |-> s, b |-> << >>]
\* a string given by its character codes (toASCIIString)
Asc(b)     == [k |-> "asc", n |-> 0, d |-> 1, s |-> << >>, b |-> b]
Msg(text, args) == [text |-> text, args |-> args]

RFU == Str(<< "RFU" >>)

\* the tables of TA1_v
Fi_tab ==
  << Num(372), Num(372), Num(558), Num(744), Num(1116), Num(1488), Num(1860), RFU,
     RFU, Num(512), Num(768), Num(1024), Num(1536), Num(2048), RFU, RFU >>
Di_tab ==
  << RFU, Num(1), Num(2), Num(4), Num(8), Num(16), Num(32), Num(64),
     Num(12), Num(20), RFU, RFU, RFU, RFU, RFU, RFU >>
FMax_tab ==
  << Num(4), Num(5), Num(6), Num(8), Num(12), Num(16), Num(20), RFU,
     RFU, Num(5), Frac(15, 2), Num(10), Num(15), Num(20), RFU, RFU >>

\* TA1_v with the two halves of the byte exchanged
TA1_v_swapped(v) ==
  LET F == BitAnd(v, 15)
      D == v \div 16
      args == << Fi_tab[F + 1], Di_tab[D + 1] >>
  IN  IF RFU \in {args[1], args[2]} THEN args
      ELSE args \o << Frac(args[1].n, args[2].n), FMax_tab[F + 1] >>

\* TA1_v(v): (Fi, Di) when one of them is "RFU", else (Fi, Di, Fi/Di, FMax)
TA1_v(v) ==
  LET F == v \div 16
      D == BitAnd(v, 15)
      args == << Fi_tab[F + 1], Di_tab[D + 1] >>
  IN  IF RFU \in {args[1], args[2]} THEN args
      ELSE args \o << Frac(args[1].n, args[2].n), FMax_tab[F + 1] >>

\* TA1(v); int(x) truncates, and every quotient here is positive
TA1(v) ==
  LET args == TA1_v(v)
  IN  IF Len(args) = 2
      THEN Msg(<< "Fi=%s, Di=%s", ", INVALID VALUE" >>, args)
      ELSE LET Fi == args[1]
               Di == args[2]
               value == args[3]
               FMax  == args[4]
           IN  Msg(<< "Fi=%s, Di=%s",
                      ", %g cycles/ETU (%d bits/s at 4.00 MHz, %d bits/s for fMax=%d MHz)" >>,
                   << Fi, Di, value,
                      Num((4000000 * value.d) \div value.n),
                      Num((FMax.n * 1000000 * value.d) \div (FMax.d * value.n)),
                      FMax >>)

\* TA2(v)
TA2(v) ==
  LET F == v \div 16
      D == BitAnd(v, 15)
  IN  Msg(<< "Protocol to be used in spec mode: T=", ToString(D),
             IF BitAnd(F, 8) # 0 THEN " - Unable to change" ELSE " - Capable to change",
             IF BitAnd(F, 1) # 0 THEN " - implicity defined"
                                 ELSE " - defined by interface bytes" >>,
          << >>)

XI == << "not supported", "state L", "state H", "no preference" >>

\* TAn with the class list taken from the low 6 bits, bit 5 read as bit 4
TAn_bit5(i, v, T) ==
  IF T = 1 THEN Msg(<< "IFSC: %s" >>, << Num(v) >>)
  ELSE LET F == v \div 64
           D == v % 64
           Class == << "(3G) " >>
                    \o (IF BitAnd(D, 1) # 0 THEN << "A 5V " >> ELSE << >>)
                    \o (IF BitAnd(D, 2) # 0 THEN << "B 3V " >> ELSE << >>)
                    \o (IF BitAnd(D, 4) # 0 THEN << "C 1.8V " >> ELSE << >>)
                    \o (IF BitAnd(D, 8) # 0 THEN << "D RFU " >> ELSE << >>)
                    \o (IF BitAnd(D, 48) # 0 THEN << "E RFU" >> ELSE << >>)
       IN  Msg(<< "Clock stop: %s - Class accepted by the card: %s" >>,
               << Str(<< XI[F + 1] >>), Str(Class) >>)

\* TAn(i, v), reading the module-level T
TAn(i, v, T) ==
  IF T = 1 THEN Msg(<< "IFSC: %s" >>, << Num(v) >>)
  ELSE LET F == v \div 64
           D == v % 64
           Class == << "(3G) " >>
                    \o (IF BitAnd(D, 1) # 0 THEN << "A 5V " >> ELSE << >>)
                    \o (IF BitAnd(D, 2) # 0 THEN << "B 3V " >> ELSE << >>)
                    \o (IF BitAnd(D, 4) # 0 THEN << "C 1.8V " >> ELSE << >>)
                    \o (IF BitAnd(D, 8) # 0 THEN << "D RFU " >> ELSE << >>)
                    \o (IF BitAnd(D, 16) # 0 THEN << "E RFU" >> ELSE << >>)
       IN  Msg(<< "Clock stop: %s - Class accepted by the card: %s" >>,
               << Str(<< XI[F + 1] >>), Str(Class) >>)

I_tab == << "25 milliAmperes", "50 milliAmperes", "100 milliAmperes", "RFU" >>

\* TB1(v)
TB1(v) ==
  LET I  == BitAnd(v \div 32, 3)
      PI == BitAnd(v, 31)
  IN  IF PI = 0 THEN Msg(<< "VPP is not electrically connected" >>, << >>)
      ELSE Msg(<< "Programming Param P: ", ToString(PI), " Volts, I: ", I_tab[I + 1] >>,
               << >>)

\* TB2(v)
TB2(v) ==
  Msg(<< "Programming param PI2 (PI1 should be ignored): ", ToString(v),
         IF v > 49 /\ v < 251 THEN " (dV)" ELSE " is RFU" >>, << >>)

\* the table of TBn for T = 15 (ETSI TS 102 221), texts.get(v, "RFU")
TB_T15(v) ==
  CASE v = 0   -> "No additional global interface parameters supported"
    [] v = 136 -> "Secure Channel supported as defined in TS 102 484"
    [] v = 140 -> "Secured APDU - Platform to Platform required as defined in TS 102 484"
    [] v = 130 -> "eUICC-related functions supported"
    [] v = 144 -> "Low Impedance drivers and protocol available on the I/O line available (see clause 7.2.1)"
    [] v = 160 -> "UICC-CLF interface supported as defined in TS 102 613"
    [] v = 192 -> "Inter-Chip USB UICC-Terminal interface supported as defined in TS 102 600"
    [] OTHER   -> "RFU"

\* TBn(i, v), reading the module-level T
TBn(i, v, T) ==
  IF T = 1
  THEN Msg(<< "Block Waiting Integer: %d - Character Waiting Integer: %d" >>,
           << Num(v \div 16), Num(v % 16) >>)
  ELSE IF i > 2 /\ T = 15 THEN Msg(<< TB_T15(v) >>, << >>)
  ELSE Msg(<< "Undocumented" >>, << >>)

\* TC1(v)
TC1(v) ==
  Msg(<< "Extra guard time: %d" >> \o (IF v = 255 THEN << " (special value)" >> ELSE << >>),
      << Num(v) >>)

\* TC2(v)
TC2(v) == Msg(<< "Work waiting time: 960 x ", ToString(v), " x (Fi/F)" >>, << >>)

\* TCn(i, v), reading the module-level T
TCn(i, v, T) ==
  IF T = 1
  THEN Msg(<< "Error detection code: %s" >>,
           << Str(<< IF v = 1 THEN "CRC" ELSE IF v = 0 THEN "LRC" ELSE "RFU" >>) >>)
  ELSE Msg(<< >>, << >>)

\* TDn that leaves T alone when the low nibble of v is 0
TDn_keepT(i, v, T) ==
  LET Y  == v \div 16
      Tn == BitAnd(v, 15)
  IN  [T   |-> IF Tn = 0 THEN T ELSE Tn,
       msg |-> Msg(<< "Y(i+1) = b%s, Protocol T=%d" >>
                   \o (IF i = 1 /\ Tn = 15 THEN << " (INVALID VALUE for TD1)" >> ELSE << >>),
                   << Str(int2bin(Y, 4)), Num(Tn) >>)]

\* TDn(i, v): writes the module-level T (global T; T = v & 0xF) and returns
\* the description; [T, msg] is the pair (T after the call, returned value)
TDn(i, v, T) ==
  LET Y  == v \div 16
      Tn == BitAnd(v, 15)
  IN  [T   |-> Tn,
       msg |-> Msg(<< "Y(i+1) = b%s, Protocol T=%d" >>
                   \o (IF i = 1 /\ Tn = 15 THEN << " (INVALID VALUE for TD1)" >> ELSE << >>),
                   << Str(int2bin(Y, 4)), Num(Tn) >>)]

\* eval("%s%d(%d)" % (key, i, v)) for i in 1..5: the function named key+i,
\* run with the module-level T; [T, msg]
Interpret(key, i, v, T) ==
  CASE key = "TA" -> [T |-> T, msg |-> IF i = 1 THEN TA1(v)
                                       ELSE IF i = 2 THEN TA2(v) ELSE TAn(i, v, T)]
    [] key = "TB" -> [T |-> T, msg |-> IF i = 1 THEN TB1(v)
                                       ELSE IF i = 2 THEN TB2(v) ELSE TBn(i, v, T)]
    [] key = "TC" -> [T |-> T, msg |-> IF i = 1 THEN TC1(v)
                                       ELSE IF i = 2 THEN TC2(v) ELSE TCn(i, v, T)]
    [] key = "TD" -> TDn(i, v, T)

\* ------------------------------------------------- historical bytes helpers

\* life_cycle_status with the proprietary test run last, for every value above 11
life_cycle_status_above11(lcs) ==
  LET t0 == "Unknown"
      t2 == IF lcs = 0 THEN "No information given" ELSE t0
      t3 == IF lcs = 1 THEN "Creation state" ELSE t2
      t4 == IF lcs = 3 THEN "Initialisation state" ELSE t3
      t5 == IF lcs \in {4, 6} THEN "Operational state (deactivated)" ELSE t4
      t6 == IF lcs \in {5, 7} THEN "Operational state (activated)" ELSE t5
      t7 == IF lcs \in {12, 13, 14, 15} THEN "Termination state" ELSE t6
      t1 == IF lcs > 11 THEN "Proprietary" ELSE t7
  IN  t1

\* life_cycle_status(lcs): the ifs are run in order, the last match wins
life_cycle_status(lcs) ==
  LET t0 == "Unknown"
      t1 == IF lcs > 15 THEN "Proprietary" ELSE t0
      t2 == IF lcs = 0 THEN "No information given" ELSE t1
      t3 == IF lcs = 1 THEN "Creation state" ELSE t2
      t4 == IF lcs = 3 THEN "Initialisation state" ELSE t3
      t5 == IF lcs \in {4, 6} THEN "Operational state (deactivated)" ELSE t4
      t6 == IF lcs \in {5, 7} THEN "Operational state (activated)" ELSE t5
      t7 == IF lcs \in {12, 13, 14, 15} THEN "Termination state" ELSE t6
  IN  t7

\* a line of text that is appended when the bit m of v is set
IfBit(v, m, line) == IF BitAnd(v, m) # 0 THEN << line >> ELSE << >>

\* data_coding(dc)
data_coding(dc) ==
  IfBit(dc, 128, "        - EF of TLV structure supported\n")
  \o << "        - Behaviour of write functions: ",
        << "one-time write\n", "proprietary\n", "write OR\n", "write AND\n" >>
          [(BitAnd(dc, 96) \div 32) + 1],
        "        - Value 'FF' for the first byte of BER-TLV tag fields: " >>
  \o (IF BitAnd(dc, 16) = 0 THEN << "in" >> ELSE << >>)
  \o << "valid\n", "        - Data unit in quartets: ", ToString(BitAnd(dc, 15)), "\n" >>

\* selection_methods(sm)
selection_methods(sm) ==
  IfBit(sm, 1, "        - Record identifier supported\n")
  \o IfBit(sm, 2, "        - Record number supported\n")
  \o IfBit(sm, 4, "        - Short EF identifier supported\n")
  \o IfBit(sm, 8, "        - Implicit DF selection\n")
  \o IfBit(sm, 16, "        - DF selection by file identifier\n")
  \o IfBit(sm, 32, "        - DF selection by path\n")
  \o IfBit(sm, 64, "        - DF selection by partial DF name\n")
  \o IfBit(sm, 128, "        - DF selection by full DF name\n")

\* selection_mode(sm): the same lines as selection_methods
selection_mode(sm) ==
  IfBit(sm, 1, "        - Record identifier supported\n")
  \o IfBit(sm, 2, "        - Record number supported\n")
  \o IfBit(sm, 4, "        - Short EF identifier supported\n")
  \o IfBit(sm, 8, "        - Implicit DF selection\n")
  \o IfBit(sm, 16, "        - DF selection by file identifier\n")
  \o IfBit(sm, 32, "        - DF selection by path\n")
  \o IfBit(sm, 64, "        - DF selection by partial DF name\n")
  \o IfBit(sm, 128, "        - DF selection by full DF name\n")

\* command_chaining(cc); 1 + cc & 7 is (1 + cc) & 7
command_chaining(cc) ==
  IfBit(cc, 128, "        - Command chaining\n")
  \o IfBit(cc, 64, "        - Extended Lc and Le fields\n")
  \o IfBit(cc, 32, "        - RFU (should not happen)\n")
  \o << "        - Logical channel number assignment: ",
        << "No logical channel\n", "by the interface device\n", "by the card\n",
           "by the interface device and card\n" >>[BitAnd(cc \div 8, 3) + 1],
        "        - Maximum number of logical channels: ",
        ToString((1 + cc) % 8), "\n" >>

\* card_service(cs)
card_service(cs) ==
  IfBit(cs, 128, "        - Application selection: by full DF name\n")
  \o IfBit(cs, 64, "        - Application selection: by partial DF name\n")
  \o IfBit(cs, 32, "        - BER-TLV data objects available in EF.DIR\n")
  \o IfBit(cs, 16, "        - BER-TLV data objects available in EF.ATR\n")
  \o << "        - EF.DIR and EF.ATR access services: ",
        LET v == BitAnd(cs \div 2, 7)
        IN  IF v = 4 THEN "by READ BINARY command\n"
            ELSE IF v = 2 THEN "by GET DATA command\n"
            ELSE IF v = 0 THEN "by GET RECORD(s) command\n"
            ELSE "reverved for future use\n",
        IF BitAnd(cs, 1) # 0 THEN "        - Card without MF\n"
                             ELSE "        - Card with MF\n" >>

\* safe_get(historical_bytes, number): a missing byte reads as 0
safe_get(historical_bytes, number) ==
  [i \in 1..number |-> IF i <= Len(historical_bytes) THEN historical_bytes[i] ELSE 0]

\* a warning stored by the historical-byte analysis
Warning(text, n) == [text |-> text, n |-> n, s |-> << >>, hex |-> << >>]

Expect1Warning == Warning("Error in the ATR: expecting 1 byte and got 0\n", 0)

\* toHexString(hb[:len]) and toASCIIString(hb[:len]) as two values
HexAscii(hb, len) ==
  << Str(toHexString(Slice(hb, 0, len), FALSE)),
     Asc(toASCIIString(Slice(hb, 0, len))) >>

\* "%02X %02X" % (sw1, sw2)
SW(sw1, sw2) == Str(Hex2(sw1) \o << " " >> \o Hex2(sw2))

\* the arm of compact_tlv for one tag, on the bytes hb left after the
\* tag/length byte: [out, text, args, warning]
TlvArm(tag, len, hb) ==
  LET ok(text, args) == [out |-> "ok", text |-> text, args |-> args, warning |-> << >>]
      one(name, line) ==
        ok(<< line >>, << Str(<< name >>), Str(toHexString(Slice(hb, 0, len), FALSE)) >>)
      two(name, line) == ok(<< line >>, << Str(<< name >>) >> \o HexAscii(hb, len))
  IN  CASE tag = 1 -> one("country code, ISO 3166-1", "      Country code: %s\n")
        [] tag = 2 -> one("issuer identification number, ISO 7812-1",
                          "      Issuer identification number: %s\n")
        [] tag = 3 ->
             IF hb = << >>
             THEN [out |-> "ok", text |-> << Expect1Warning.text >>,
                   args |-> << Str(<< "card service data byte" >>) >>,
                   warning |-> << Expect1Warning >>]
             ELSE ok(<< "      Card service data byte: %d\n%s" >>,
                     << Str(<< "card service data byte" >>), Num(hb[1]),
                        Str(card_service(hb[1])) >>)
        [] tag = 4 -> two("initial access data", "      Initial access data: %s \"%s\"\n")
        [] tag = 5 -> two("card issuer's data", "      Card issuer data: %s \"%s\"\n")
        [] tag = 6 -> two("pre-issuing data", "      Data: %s \"%s\"\n")
        [] tag = 7 ->
             LET name == Str(<< "card capabilities" >>)
                 g    == safe_get(hb, len)
             IN  IF len = 1
                 THEN IF hb = << >>
                      THEN [out |-> "ok", text |-> << Expect1Warning.text >>,
                            args |-> << name >>, warning |-> << Expect1Warning >>]
                      ELSE ok(<< "      Selection methods: %d\n%s" >>,
                              << name, Num(hb[1]), Str(selection_mode(hb[1])) >>)
                 ELSE IF len = 2
                 THEN ok(<< "      Selection methods: %d\n%s",
                            "      Data coding byte: %d\n%s" >>,
                         << name, Num(g[1]), Str(selection_methods(g[1])),
                            Num(g[2]), Str(data_coding(g[2])) >>)
                 ELSE IF len = 3
                 THEN ok(<< "      Selection methods: %d\n%s",
                            "      Data coding byte: %d\n%s",
                            "      Command chaining, length fields and logical channels: %d\n%s" >>,
                         << name, Num(g[1]), Str(selection_mode(g[1])),
                            Num(g[2]), Str(data_coding(g[2])),
                            Num(g[3]), Str(command_chaining(g[3])) >>)
                 ELSE ok(<< "      wrong ATR" >>, << name >>)
        [] tag = 8 ->
             LET name == Str(<< "status indicator" >>)
                 g    == safe_get(hb, len)
             IN  IF len = 1
                 THEN IF hb = << >>
                      THEN [out |-> "IndexError", text |-> << >>, args |-> << >>,
                            warning |-> << >>]
                      ELSE ok(<< "      LCS (life card cycle): %d\n" >>, << name, Num(hb[1]) >>)
                 ELSE IF len = 2
                 THEN ok(<< "      SW: %s" >>, << name, SW(g[1], g[2]) >>)
                 ELSE IF len = 3
                 THEN ok(<< "      LCS (life card cycle): %d\n", "      SW: %s" >>,
                         << name, Num(g[1]), SW(g[2], g[3]) >>)
                 ELSE ok(<< >>, << name >>)
        [] tag = 15 -> two("application identifier",
                           "      Application identifier: %s \"%s\"\n")
        [] OTHER -> two("unknown", "      Value: %s \"%s\"\n")

\* compact_tlv without del historical_bytes[0:len]
compact_tlv_nodel(historical_bytes) ==
  IF historical_bytes = << >>
  THEN [out |-> "IndexError", hb |-> << >>, text |-> << >>, args |-> << >>,
        warning |-> << >>]
  ELSE LET tlv == Head(historical_bytes)
           hb  == Tail(historical_bytes)
           tag == tlv \div 16
           len == tlv % 16
       IN  Let(TlvArm(tag, len, hb), LAMBDA arm :
             [out  |-> arm.out,
              hb   |-> hb,
              text |-> << "    Tag: ", ToString(tag), ", Len: ", ToString(len), " (%s)\n" >>
                       \o arm.text,
              args |-> arm.args,
              warning |-> arm.warning])

\* compact_tlv(atr, historical_bytes): [out, hb, text, args, warning], hb
\* being the list as the call leaves it and warning what it stored in
\* atr["warning"]
compact_tlv(historical_bytes) ==
  IF historical_bytes = << >>
  THEN [out |-> "IndexError", hb |-> << >>, text |-> << >>, args |-> << >>,
        warning |-> << >>]
  ELSE LET tlv == Head(historical_bytes)
           hb  == Tail(historical_bytes)
           tag == tlv \div 16
           len == tlv % 16
       IN  Let(TlvArm(tag, len, hb), LAMBDA arm :
             [out  |-> arm.out,
              hb   |-> IF arm.out = "ok" THEN Slice(hb, len, Len(hb)) ELSE hb,
              text |-> << "    Tag: ", ToString(tag), ", Len: ", ToString(len), " (%s)\n" >>
                       \o arm.text,
              args |-> arm.args,
              warning |-> arm.warning])

\* ------------------------------------------------ analyse_historical_bytes

\* the value analyse_historical_bytes returns: None (kind "None"), [text]
\* (kind "short") or [left, [text, args]] (kind "full")
HbDesc(kind, left, text, args) ==
  [kind |-> kind, left |-> left, text |-> text, args |-> args]

RECURSIVE TlvWalk(_, _)
\* while len(hb) > 0: [t, a] = compact_tlv(atr, hb); text.append(t); args += a
\* acc is [out, text, args, warning]
TlvWalk(hb, acc) ==
  IF hb = << >> \/ acc.out # "ok" THEN acc
  ELSE Let(compact_tlv(hb), LAMBDA r :
       Let([out  |-> r.out,
            text |-> acc.text \o r.text,
            args |-> acc.args \o r.args,
            warning |-> IF r.warning # << >> THEN r.warning ELSE acc.warning],
           LAMBDA acc1 : TlvWalk(r.hb, acc1)))

\* ReservedCategory with 0x90 among the reserved values
ReservedCategory_wide(c) == c \in 129..144

\* hb_category in (0x81, ..., 0x8F)
ReservedCategory(c) == c \in 129..143

\* status = hb[-3:], the 3 last bytes of a block of category 0x00
Status(hb) == Slice(hb, Len(hb) - 3, Len(hb))

\* BeforeStatus without del hb[-3:]
BeforeStatus_nodel(hb) == hb

\* del hb[-3:]: what is left of hb for the walk
BeforeStatus(hb) == Slice(hb, 0, Len(hb) - 3)

\* hb = list(historical_bytes): the analysis consumes hb, a copy, so that
\* the list of the caller is after the call what it was before, whatever
\* hb has become
CallerList_alias(historical_bytes, hb) == hb

CallerList(historical_bytes, hb) == historical_bytes

\* analyse_historical_bytes(atr, historical_bytes): [out, desc, warning,
\* historical_bytes], warning being what the call stored in atr["warning"]
\* (empty: nothing) and historical_bytes the list of the caller after the call
analyse_historical_bytes(historical_bytes) ==
  IF Len(historical_bytes) = 0
  THEN [out |-> "ok", desc |-> HbDesc("None", << >>, << >>, << >>), warning |-> << >>,
        historical_bytes |-> historical_bytes]
  ELSE
    LET hb_category == Head(historical_bytes)
        hb   == Tail(historical_bytes)
        left == << "  Category indicator byte: 0x" >> \o Hex2(hb_category)
        tlv0 == << " (compact TLV data object)\n" >>
        acc0 == [out |-> "ok", text |-> tlv0, args |-> << >>, warning |-> << >>]
        full(w, text, args, hbleft) ==
          [out |-> w.out, desc |-> HbDesc("full", left, text, args), warning |-> w.warning,
           historical_bytes |-> CallerList(historical_bytes, hbleft)]
    IN  CASE hb_category = 0 ->
               IF Len(hb) < 3
               THEN LET warning == Warning("Error in the ATR: expecting 3 bytes and got %d",
                                           Len(hb))
                    IN  [out |-> "ok",
                         desc |-> HbDesc("short", << >>, tlv0 \o << warning.text >>,
                                         << Num(Len(hb)) >>),
                         warning |-> << warning >>,
                         historical_bytes |-> CallerList(historical_bytes, hb)]
               ELSE LET status == Status(hb)
                    IN  Let(TlvWalk(BeforeStatus(hb), acc0), LAMBDA w :
                          full(w,
                               w.text \o << "    Mandatory status indicator (3 last bytes)\n",
                                            "      LCS (life card cycle): %d (%s)\n",
                                            "      SW: %s" >>,
                               w.args \o << Num(status[1]),
                                            Str(<< life_cycle_status(status[1]) >>),
                                            SW(status[2], status[3]) >>,
                               << >>))
          [] hb_category = 128 ->
               Let(TlvWalk(hb, acc0), LAMBDA w : full(w, w.text, w.args, << >>))
          [] hb_category = 16 ->
               IF hb = << >>
               THEN [out |-> "IndexError", desc |-> HbDesc("None", << >>, << >>, << >>),
                     warning |-> << >>,
                     historical_bytes |-> CallerList(historical_bytes, hb)]
               ELSE full(acc0, << " (next byte is the DIR data reference)\n",
                                  "   DIR data reference: %d" >>,
                         << Num(hb[1]) >>, Tail(hb))
          [] ReservedCategory(hb_category) ->
               full(acc0, << " (Reserved for future use)" >>, << >>, hb)
          [] OTHER ->
               full(acc0, << " (proprietary format) \"%s\"" >>, << Asc(toASCIIString(hb)) >>,
                    hb)

\* ------------------------------------------------------------- compute_tck

RECURSIVE XorAll(_)
\* the XOR of the bytes of a list
XorAll(a) == IF a = << >> THEN 0 ELSE BitXor(Head(a), XorAll(Tail(a)))

\* compute_tck without s = atr[0], so with TS in the XOR
compute_tck_withTS(a) == BitXor(XorAll(a), a[Len(a)])

\* compute_tck(atr), on atr["atr"]: s = a[0]; for e in a: s ^= e; s ^= a[-1]
compute_tck(a) == BitXor(BitXor(a[1], XorAll(a)), a[Len(a)])

\* ------------------------------------------------------------- documentATR

\* TS.get(atr["TS"]["value"], "Invalid")
TSdescription(v) ==
  IF v = 59 THEN "Direct Convention"
  ELSE IF v = 63 THEN "Inverse Convention" ELSE "Invalid"

\* the head of documentATR: the descriptions of TS and T0
DocHead(rec) ==
  LET t0 == rec.T0[1].value
  IN  [rec EXCEPT
         !.TS[1].description = << Msg(<< TSdescription(rec.TS[1].value) >>, << >>) >>,
         !.T0[1].description =
            << Msg(<< "Y(1): b%s, K: %d (historical bytes)" >>,
                   << Str(int2bin(t0 \div 16, 4)), Num(BitAnd(t0, 15)) >>) >>]

\* the fields the double loop of documentATR visits, in its order:
\* for i in (1, 2, 3, 4, 5): for p in ("A", "B", "C", "D")
DocOrder ==
  << << "TA", 1 >>, << "TB", 1 >>, << "TC", 1 >>, << "TD", 1 >>,
     << "TA", 2 >>, << "TB", 2 >>, << "TC", 2 >>, << "TD", 2 >>,
     << "TA", 3 >>, << "TB", 3 >>, << "TC", 3 >>, << "TD", 3 >>,
     << "TA", 4 >>, << "TB", 4 >>, << "TC", 4 >>, << "TD", 4 >>,
     << "TA", 5 >>, << "TB", 5 >>, << "TC", 5 >>, << "TD", 5 >> >>

\* if key in atr and i in atr[key]
DocPresent(rec, f) == f[2] \in DOMAIN rec[f[1]]

\* the visits of the loop that find their field in the record
DocFields(rec) == SelectSeq(DocOrder, LAMBDA f : DocPresent(rec, f))

\* atr[key][i]["description"] = eval(...): [rec, T] after the visit of f
DocField(rec, T, f) ==
  Let(Interpret(f[1], f[2], rec[f[1]][f[2]].value, T), LAMBDA r :
    [rec |-> [rec EXCEPT ![f[1]][f[2]].description = << r.msg >>],
     T   |-> r.T])

\* the description of TCK
TCKdescription(tck, value) ==
  IF tck = value THEN Msg(<< "correct checksum" >>, << >>)
  ELSE Msg(<< "WRONG CHECKSUM, expected 0x" >> \o Hex2(tck), << >>)

\* "Extra bytes: " + toHexString(atr["extra"])
ExtraWarning(extra) ==
  [text |-> "Extra bytes: ", n |-> 0, s |-> << >>, hex |-> toHexString(extra, FALSE)]

\* the tail of documentATR, after the loop: hb, TCK, extra; [out, rec]
DocTail(rec) ==
  Let(analyse_historical_bytes(rec.hb[1].value), LAMBDA h :
    IF h.out # "ok" THEN [out |-> h.out, rec |-> NoRecord]
    ELSE [out |-> "ok",
          rec |-> [rec EXCEPT
                     !.hb[1].value = h.historical_bytes,
                     !.hb[1].description = << h.desc >>,
                     !.TCK = IF rec.TCK = << >> THEN << >>
                             ELSE << [value |-> rec.TCK[1].value,
                                      description |->
                                        << TCKdescription(compute_tck(rec.atr),
                                                          rec.TCK[1].value) >>] >>,
                     !.warning = IF rec.extra # << >> THEN << ExtraWarning(rec.extra) >>
                                 ELSE IF h.warning # << >> THEN h.warning
                                 ELSE @]])

RECURSIVE DocLoop(_, _, _)
\* the whole double loop, from the module-level T it finds: [rec, T]
DocLoop(rec, T, fields) ==
  IF fields = << >> THEN [rec |-> rec, T |-> T]
  ELSE Let(DocField(rec, T, Head(fields)), LAMBDA r : DocLoop(r.rec, r.T, Tail(fields)))

\* parseATR(atr_txt) run alone from the module-level T: [out, rec, T]
parseATR(atr_txt, T) ==
  Let(decomposeATR(atr_txt), LAMBDA d :
    IF d.out # "ok" THEN [out |-> d.out, rec |-> NoRecord, T |-> T]
    ELSE Let(DocLoop(DocHead(d.rec), T, DocFields(d.rec)), LAMBDA l :
         Let(DocTail(l.rec), LAMBDA t :
           [out |-> t.out, rec |-> t.rec, T |-> l.T])))

\* ------------------------------------------------------------------ inputs

\* the values of TS and of the other bytes of the sequences that are decoded
TSVals == {59}
ByteVals == {0, 1, 16, 34, 64, 128, 129}

RECURSIVE SeqsUpTo(_, _)
\* the sequences over S of length 0..n
SeqsUpTo(S, n) ==
  IF n = 0 THEN {<< >>}
  ELSE Let(SeqsUpTo(S, n - 1), LAMBDA shorter :
         shorter \cup {Append(q, x) : q \in {r \in shorter : Len(r) = n - 1}, x \in S})

\* the byte sequences: empty, or TS followed by at most MaxLen - 1 bytes
ByteSeqs ==
  {<< >>} \cup {<< ts >> \o q : ts \in TSVals, q \in SeqsUpTo(ByteVals, MaxLen - 1)}

\* the strings handed to parseATR: the rendering of toHexString, as in
\* __main__ (ATR = toHexString(normalize(ATR))), and strings with one
\* dangling digit
InputTexts ==
  {toHexString(b, FALSE) : b \in ByteSeqs}
  \cup {toHexString(b, FALSE) \o << "3" >> : b \in {q \in ByteSeqs : Len(q) <= 2}}

\* the strings two threads decode at the same time
ConcInputs == {<< 59, 128, 128, 17, 0 >>, << 59, 128, 128, 16, 0 >>, << 59, 0 >>}
ConcTexts == {toHexString(b, TRUE) : b \in ConcInputs}

\* the strings handed to normalize on its own: digits of both cases and the
\* two separators
TextChars == {"0", "B", "a", ":", " "}
NormTexts == SeqsUpTo(TextChars, MaxTxt)

\* the blocks handed to analyse_historical_bytes on its own: every category
\* indicator byte, and long blocks for the categories that decode them
HbVals == {0, 49, 66, 129}
HbBlocks ==
  {<< c >> \o t : c \in Byte, t \in SeqsUpTo(HbVals, 1)}
  \cup {<< c >> \o t : c \in {0, 16, 128}, t \in SeqsUpTo(HbVals, MaxHb)}

\* the strings of the sequences TS, T0, block: T0 announces no interface
\* byte and as many historical bytes as the block has
HbAtrTexts ==
  {toHexString(<< ts, Len(b) >> \o b, FALSE) : ts \in TSVals, b \in HbBlocks}

\* the blocks handed to compact_tlv on its own: every tag/length byte, and
\* the block of the docstring of compact_tlv
TlvBlocks ==
  {<< h >> \o t : h \in Byte, t \in SeqsUpTo(HbVals, MaxTlv)}
  \cup {<< 101, 162, 8, 1, 1, 82 >>}

\* the sequences with a long chain of TDi, and their strings
ChainVals == {1, 17, 128}
ChainTexts ==
  {toHexString(<< ts >> \o q, TRUE) : ts \in TSVals, q \in SeqsUpTo(ChainVals, MaxChain)}

\* ----------------------------------------------------------- state machine

Threads == 1..NThreads

VARIABLES
  T,       \* the module-level variable T (parseATR.py line 28)
  pc,      \* pc[p]: where thread p is in parseATR
  arg,     \* arg[p]: the atr_txt of the call thread p is running or has run
  rec,     \* rec[p]: the dictionary atr of that call
  todo,    \* todo[p]: the visits left to the loop of documentATR
  out,     \* out[p]: "none" while the call runs, then "ok" or the exception
  Tin,     \* Tin[p]: the value of T that the call of thread p found at its start
  val      \* val[p]: the value returned by a function called on its own

vars == << T, pc, arg, rec, todo, out, Tin, val >>

Init ==
  /\ T = T_INIT
  /\ pc = [p \in Threads |-> "idle"]
  /\ arg = [p \in Threads |-> << >>]
  /\ rec = [p \in Threads |-> NoRecord]
  /\ todo = [p \in Threads |-> << >>]
  /\ out = [p \in Threads |-> "none"]
  /\ Tin = [p \in Threads |-> T_INIT]
  /\ val = [p \in Threads |-> << >>]

\* parseATR line 160: atr = decomposeATR(atr_txt)
Call(p, texts) ==
  /\ pc[p] = "idle"
  /\ \E txt \in texts :
       /\ \E d \in {decomposeATR(txt)} :
            /\ pc' = [pc EXCEPT ![p] = IF d.out = "ok" THEN "decomposed" ELSE "done"]
            /\ out' = [out EXCEPT ![p] = IF d.out = "ok" THEN "none" ELSE d.out]
            /\ rec' = [rec EXCEPT ![p] = d.rec]
       /\ arg' = [arg EXCEPT ![p] = txt]
  /\ Tin' = [Tin EXCEPT ![p] = T]
  /\ UNCHANGED << T, todo, val >>

\* documentATR up to its loop: TS and T0
DocStart(p) ==
  /\ pc[p] = "decomposed"
  /\ rec' = [rec EXCEPT ![p] = DocHead(rec[p])]
  /\ todo' = [todo EXCEPT ![p] = DocFields(rec[p])]
  /\ pc' = [pc EXCEPT ![p] = "doc"]
  /\ UNCHANGED << T, arg, out, Tin, val >>

\* one visit of the loop of documentATR: one call of a field interpreter
DocVisit(p) ==
  /\ pc[p] = "doc"
  /\ todo[p] # << >>
  /\ \E r \in {DocField(rec[p], T, Head(todo[p]))} :
       /\ rec' = [rec EXCEPT ![p] = r.rec]
       /\ T' = r.T
  /\ todo' = [todo EXCEPT ![p] = Tail(@)]
  /\ UNCHANGED << pc, arg, out, Tin, val >>

\* documentATR after its loop, and the return of parseATR
DocFinish(p) ==
  /\ pc[p] = "doc"
  /\ todo[p] = << >>
  /\ \E t \in {DocTail(rec[p])} :
       /\ rec' = [rec EXCEPT ![p] = t.rec]
       /\ out' = [out EXCEPT ![p] = t.out]
  /\ pc' = [pc EXCEPT ![p] = "done"]
  /\ UNCHANGED << T, arg, todo, Tin, val >>

\* the caller drops the result; the thread is ready for its next call
Return(p) ==
  /\ pc[p] = "done"
  /\ pc' = [pc EXCEPT ![p] = "idle"]
  /\ arg' = [arg EXCEPT ![p] = << >>]
  /\ rec' = [rec EXCEPT ![p] = NoRecord]
  /\ out' = [out EXCEPT ![p] = "none"]
  /\ Tin' = [Tin EXCEPT ![p] = T_INIT]
  /\ UNCHANGED << T, todo, val >>

\* parseATR(atr_txt) run from its call to its return with no other thread
\* running in between
ParseATR(p, texts) ==
  /\ pc[p] = "idle"
  /\ \E txt \in texts :
       /\ \E r \in {parseATR(txt, T)} :
            /\ rec' = [rec EXCEPT ![p] = r.rec]
            /\ out' = [out EXCEPT ![p] = r.out]
            /\ T' = r.T
       /\ arg' = [arg EXCEPT ![p] = txt]
  /\ pc' = [pc EXCEPT ![p] = "done"]
  /\ Tin' = [Tin EXCEPT ![p] = T]
  /\ UNCHANGED << todo, val >>

\* decomposeATR(atr_txt) called on its own
DecomposeATR(p, texts) ==
  /\ pc[p] = "idle"
  /\ \E txt \in texts :
       /\ \E d \in {decomposeATR(txt)} :
            /\ rec' = [rec EXCEPT ![p] = d.rec]
            /\ out' = [out EXCEPT ![p] = d.out]
       /\ arg' = [arg EXCEPT ![p] = txt]
  /\ pc' = [pc EXCEPT ![p] = "decomposed"]
  /\ UNCHANGED << T, todo, Tin, val >>

\* the caller of decomposeATR drops the result
ReturnDecomposed(p) ==
  /\ pc[p] = "decomposed"
  /\ todo[p] = << >>
  /\ out[p] # "none"
  /\ pc' = [pc EXCEPT ![p] = "idle"]
  /\ arg' = [arg EXCEPT ![p] = << >>]
  /\ rec' = [rec EXCEPT ![p] = NoRecord]
  /\ out' = [out EXCEPT ![p] = "none"]
  /\ Tin' = [Tin EXCEPT ![p] = T_INIT]
  /\ UNCHANGED << T, todo, val >>

\* one thread, one call after the other
Next ==
  \/ ParseATR(1, InputTexts)
  \/ DecomposeATR(1, InputTexts)
  \/ Return(1)
  \/ ReturnDecomposed(1)

Spec == Init /\ [][Next]_vars

\* NThreads threads, their calls interleaved at the calls of the field
\* interpreters
NextConc ==
  \E p \in Threads :
    \/ Call(p, ConcTexts)
    \/ DocStart(p)
    \/ DocVisit(p)
    \/ DocFinish(p)
    \/ Return(p)

SpecConc == Init /\ [][NextConc]_vars

\* normalize(atr) called on its own
Normalize(p, texts) ==
  /\ pc[p] = "idle"
  /\ \E txt \in texts :
       /\ \E r \in {normalize(txt)} :
            /\ out' = [out EXCEPT ![p] = r.out]
            /\ val' = [val EXCEPT ![p] = r.value]
       /\ arg' = [arg EXCEPT ![p] = txt]
  /\ pc' = [pc EXCEPT ![p] = "normalized"]
  /\ UNCHANGED << T, rec, todo, Tin >>

\* toHexString(bytes, pack) called on the list normalize returned; the
\* string is kept as the argument of the next call
ToHexString(p) ==
  /\ pc[p] = "normalized"
  /\ out[p] = "ok"
  /\ \E pack \in BOOLEAN : arg' = [arg EXCEPT ![p] = toHexString(val[p], pack)]
  /\ pc' = [pc EXCEPT ![p] = "rendered"]
  /\ UNCHANGED << T, rec, todo, out, Tin, val >>

\* normalize called on the string toHexString returned
Renormalize(p) ==
  /\ pc[p] = "rendered"
  /\ \E r \in {normalize(arg[p])} :
       /\ out' = [out EXCEPT ![p] = r.out]
       /\ val' = [val EXCEPT ![p] = r.value]
  /\ pc' = [pc EXCEPT ![p] = "renormalized"]
  /\ UNCHANGED << T, arg, rec, todo, Tin >>

\* analyse_historical_bytes(atr, historical_bytes) called on its own
AnalyseHb(p, blocks) ==
  /\ pc[p] = "idle"
  /\ \E b \in blocks :
       /\ \E r \in {analyse_historical_bytes(b)} :
            /\ out' = [out EXCEPT ![p] = r.out]
            /\ val' = [val EXCEPT ![p] = r]
       /\ arg' = [arg EXCEPT ![p] = b]
  /\ pc' = [pc EXCEPT ![p] = "analysed"]
  /\ UNCHANGED << T, rec, todo, Tin >>

\* compact_tlv(atr, historical_bytes) called on its own
CompactTlv(p, blocks) ==
  /\ pc[p] = "idle"
  /\ \E b \in blocks :
       /\ \E r \in {compact_tlv(b)} :
            /\ out' = [out EXCEPT ![p] = r.out]
            /\ val' = [val EXCEPT ![p] = r]
       /\ arg' = [arg EXCEPT ![p] = b]
  /\ pc' = [pc EXCEPT ![p] = "tlv"]
  /\ UNCHANGED << T, rec, todo, Tin >>

\* the caller of one of these functions drops the result
ReturnFn(p) ==
  /\ pc[p] \in {"normalized", "rendered", "renormalized", "analysed", "tlv"}
  /\ pc' = [pc EXCEPT ![p] = "idle"]
  /\ arg' = [arg EXCEPT ![p] = << >>]
  /\ out' = [out EXCEPT ![p] = "none"]
  /\ val' = [val EXCEPT ![p] = << >>]
  /\ UNCHANGED << T, rec, todo, Tin >>

\* the functions of the module called on their own, and parseATR on the
\* sequences made of the blocks, one call after the other
NextFn ==
  \/ Normalize(1, NormTexts)
  \/ ToHexString(1)
  \/ Renormalize(1)
  \/ AnalyseHb(1, HbBlocks)
  \/ CompactTlv(1, TlvBlocks)
  \/ ReturnFn(1)
  \/ ParseATR(1, HbAtrTexts)
  \/ Return(1)

SpecFn == Init /\ [][NextFn]_vars

\* parseATR on the sequences with a long chain of TDi, one call after the other
NextChain ==
  \/ ParseATR(1, ChainTexts)
  \/ Return(1)

SpecChain == Init /\ [][NextChain]_vars

\* the interface byte values the interpreters are called with
TAnIndices == {3, 4, 5}
TDnIndices == {1, 3}

\* TA1(v) called on its own
CallTA1(p) ==
  /\ pc[p] = "idle"
  /\ \E v \in Byte :
       /\ arg' = [arg EXCEPT ![p] = << v >>]
       /\ val' = [val EXCEPT ![p] = TA1(v)]
  /\ pc' = [pc EXCEPT ![p] = "TA1"]
  /\ out' = [out EXCEPT ![p] = "ok"]
  /\ UNCHANGED << T, rec, todo, Tin >>

\* TAn(i, v) called on its own, with the module-level T as it is
CallTAn(p) ==
  /\ pc[p] = "idle"
  /\ \E i \in TAnIndices, v \in Byte :
       /\ arg' = [arg EXCEPT ![p] = << i, v >>]
       /\ val' = [val EXCEPT ![p] = TAn(i, v, T)]
  /\ pc' = [pc EXCEPT ![p] = "TAn"]
  /\ out' = [out EXCEPT ![p] = "ok"]
  /\ UNCHANGED << T, rec, todo, Tin >>

\* TDn(i, v) called on its own: it sets the module-level T
CallTDn(p) ==
  /\ pc[p] = "idle"
  /\ \E i \in TDnIndices, v \in Byte :
       /\ \E r \in {TDn(i, v, T)} :
            /\ T' = r.T
            /\ val' = [val EXCEPT ![p] = r.msg]
       /\ arg' = [arg EXCEPT ![p] = << i, v >>]
  /\ pc' = [pc EXCEPT ![p] = "TDn"]
  /\ out' = [out EXCEPT ![p] = "ok"]
  /\ UNCHANGED << rec, todo, Tin >>

\* life_cycle_status(lcs) called on its own
CallLifeCycleStatus(p) ==
  /\ pc[p] = "idle"
  /\ \E lcs \in Byte :
       /\ arg' = [arg EXCEPT ![p] = << lcs >>]
       /\ val' = [val EXCEPT ![p] = life_cycle_status(lcs)]
  /\ pc' = [pc EXCEPT ![p] = "life_cycle_status"]
  /\ out' = [out EXCEPT ![p] = "ok"]
  /\ UNCHANGED << T, rec, todo, Tin >>

\* the caller of an interpreter drops the result; T stays as it was left
ReturnInterp(p) ==
  /\ pc[p] \in {"TA1", "TAn", "TDn", "life_cycle_status"}
  /\ pc' = [pc EXCEPT ![p] = "idle"]
  /\ arg' = [arg EXCEPT ![p] = << >>]
  /\ out' = [out EXCEPT ![p] = "none"]
  /\ val' = [val EXCEPT ![p] = << >>]
  /\ UNCHANGED << T, rec, todo, Tin >>

\* the interpreters called on their own with every byte value, one call
\* after the other
NextInterp ==
  \/ CallTA1(1)
  \/ CallTAn(1)
  \/ CallTDn(1)
  \/ CallLifeCycleStatus(1)
  \/ ReturnInterp(1)

SpecInterp == Init /\ [][NextInterp]_vars

\* the ATRs TS T0 TD1 [one historical byte] TCK with T=1 in TD1, for every
\* value of the last byte, and their strings
TckHbVals == {0, 16, 49, 128}
TckBodies == {<< 128, 1 >>} \cup {<< 129, 1, h >> : h \in TckHbVals}
TckTexts ==
  {toHexString(<< ts >> \o b \o << tck >>, FALSE) : ts \in TSVals, b \in TckBodies, tck \in Byte}

\* parseATR on the sequences that end with a TCK, one call after the other
NextTck ==
  \/ ParseATR(1, TckTexts)
  \/ Return(1)

SpecTck == Init /\ [][NextTck]_vars

\* the sequences of presence bits the walk of decomposeATR is run on: TS, then
\* up to MaxWalk bytes that announce nothing, TA, TD, TA and TD, or all four
WalkVals == {0, 16, 128, 144, 240}
WalkTexts ==
  {<< >>} \cup {toHexString(<< ts >> \o q, TRUE) : ts \in TSVals, q \in SeqsUpTo(WalkVals, MaxWalk)}

\* decomposeATR up to its loop: atr_txt = normalize(atr_txt), TS, T0,
\* pointer = 1, pn = 1; the list atr_txt and the locals of the loop are kept
WalkStart(p, texts) ==
  /\ pc[p] = "idle"
  /\ \E txt \in texts :
       /\ \E n \in {normalize(txt)} :
            IF n.out = "ok" /\ Len(n.value) >= 2
            THEN /\ pc' = [pc EXCEPT ![p] = "walking"]
                 /\ val' = [val EXCEPT ![p] = [atr_txt |-> n.value, w |-> WalkInit(n.value)]]
                 /\ out' = out
            ELSE /\ pc' = [pc EXCEPT ![p] = "decomposed"]
                 /\ val' = val
                 /\ out' = [out EXCEPT ![p] = IF n.out # "ok" THEN n.out ELSE "IndexError"]
       /\ arg' = [arg EXCEPT ![p] = txt]
  /\ UNCHANGED << T, rec, todo, Tin >>

\* one pass of the loop of decomposeATR: while pointer < len(atr_txt)
WalkStep(p) ==
  /\ pc[p] = "walking"
  /\ ~val[p].w.err /\ ~val[p].w.stop /\ val[p].w.pointer < Len(val[p].atr_txt)
  /\ val' = [val EXCEPT ![p].w = WalkIter(val[p].atr_txt, val[p].w)]
  /\ UNCHANGED << T, pc, arg, rec, todo, out, Tin >>

\* decomposeATR after its loop: the IndexError of the loop leaves it, and
\* else the dictionary is completed and returned
WalkEnd(p) ==
  /\ pc[p] = "walking"
  /\ val[p].w.err \/ val[p].w.stop \/ ~(val[p].w.pointer < Len(val[p].atr_txt))
  /\ rec' = [rec EXCEPT ![p] = IF val[p].w.err THEN NoRecord
                               ELSE Decomposed(val[p].atr_txt, val[p].w)]
  /\ out' = [out EXCEPT ![p] = IF val[p].w.err THEN "IndexError" ELSE "ok"]
  /\ pc' = [pc EXCEPT ![p] = "decomposed"]
  /\ val' = [val EXCEPT ![p] = << >>]
  /\ UNCHANGED << T, arg, todo, Tin >>

\* decomposeATR run one pass of its loop at a time, one call after the other
NextWalk ==
  \/ WalkStart(1, WalkTexts)
  \/ WalkStep(1)
  \/ WalkEnd(1)
  \/ ReturnDecomposed(1)

\* a call that has started runs on: the loop and the code after it are
\* sequential code
SpecWalk ==
  Init /\ [][NextWalk]_vars /\ WF_vars(WalkStep(1)) /\ WF_vars(WalkEnd(1))

\* ------------------------------------------------------------------ claims

\* the returned dictionaries: of parseATR, and of decomposeATR or parseATR
Parsed(p) == pc[p] = "done" /\ out[p] = "ok"
Returned(p) == pc[p] \in {"decomposed", "done"} /\ out[p] = "ok"

\* the input was a string of an even number of hexadecimal digits
EvenInput(p) == normalize(arg[p]).out = "ok"

\* the number of interface bytes of a dictionary, and the bytes of the
\* sequence that follow them
NumInterface(r) ==
  Cardinality(DOMAIN r.TA) + Cardinality(DOMAIN r.TB)
  + Cardinality(DOMAIN r.TC) + Cardinality(DOMAIN r.TD)
AfterChain(r) == SubSeq(r.atr, 3 + NumInterface(r), Len(r.atr))

CorrectChecksum == << Msg(<< "correct checksum" >>, << >>) >>
WrongChecksum(e) == << Msg(<< "WRONG CHECKSUM, expected 0x" >> \o Hex2(e), << >>) >>

\* C1 (as claimed): a call of parseATR on an even number of hexadecimal
\* digits returns a record and raises nothing.
C1_NeverRaises ==
  \A p \in Threads : (pc[p] = "done" /\ EvenInput(p)) => out[p] = "ok"

\* C2 (as claimed): when hbn exceeds the bytes left after the interface
\* bytes, parseATR returns, hb.value is the bytes that are left and the
\* warning states hbn minus their number.
C2_TruncationWarned ==
  \A p \in Threads :
    pc[p] = "done" =>
      \A d \in {decomposeATR(arg[p])} :
        (d.out = "ok" /\ d.rec.hbn > Len(AfterChain(d.rec))) =>
          /\ out[p] = "ok"
          /\ rec[p].hb[1].value = AfterChain(d.rec)
          /\ rec[p].warning =
               << TruncatedWarning(d.rec.hbn - Len(AfterChain(d.rec))) >>

\* the bytes TS through TCK of a dictionary whose TCK was read
ThroughTCK(r) == SubSeq(r.atr, 1, Len(r.atr) - Len(r.extra))

C4_MismatchAnnotated ==
  \A p \in Threads :
    pc[p] = "done" =>
      \A d \in {decomposeATR(arg[p])} :
        (d.out = "ok" /\ d.rec.TCK # << >> /\ d.rec.TCK[1].value # -1
           /\ d.rec.extra = << >>) =>
          LET a == d.rec.atr
              e == XorAll(SubSeq(a, 2, Len(a) - 1))
          IN  /\ out[p] = "ok"
              /\ rec[p].TCK[1].description =
                   IF a[Len(a)] = e THEN CorrectChecksum ELSE WrongChecksum(e)

\* C5: a returned dictionary has the key TCK exactly when one of its TD[i]
\* has a low nibble other than 0.
C5_TckIffProtocol ==
  \A p \in Threads :
    Returned(p) =>
      (rec[p].TCK # << >>
         <=> \E i \in DOMAIN rec[p].TD : rec[p].TD[i].value % 16 # 0)

\* a dictionary with TCK whose last TD announces T=0 (an earlier one does not)
C5_Witness ==
  \E p \in Threads :
    /\ Returned(p) /\ pc[p] = "decomposed" /\ rec[p].TCK # << >>
    /\ rec[p].pn > 2
    /\ rec[p].TD[rec[p].pn - 1].value % 16 = 0

\* C6 (as claimed): a dictionary whose TCK is the sentinel -1 has a warning.
C6_MissingTckWarned ==
  \A p \in Threads :
    (Returned(p) /\ rec[p].TCK # << >> /\ rec[p].TCK[1].value = -1) =>
      rec[p].warning # << >>

\* C7: a call of parseATR returns what it returns when it is the first call
\* of the process, whatever T the earlier calls left.
C7_Deterministic ==
  \A p \in Threads :
    pc[p] = "done" =>
      \A r \in {parseATR(arg[p], T_INIT)} : out[p] = r.out /\ rec[p] = r.rec

\* a call that found T = 1, left by an earlier call, and described a TA3
\* that follows a TD2 announcing T=0
C7_Witness ==
  \E p \in Threads :
    /\ Parsed(p) /\ Tin[p] = 1
    /\ 3 \in DOMAIN rec[p].TA
    /\ rec[p].TA[3].description # << >>
    /\ rec[p].TD[2].value % 16 = 0

\* C8 (as claimed): with calls interleaved, each call returns what it
\* returns when it runs alone from the T it found at its start.
C8_Isolated ==
  \A p \in Threads :
    \A r \in {parseATR(arg[p], Tin[p])} :
      pc[p] = "done" => << out[p], rec[p] >> = << r.out, r.rec >>

\* the presence byte of block i: T0 for i = 1, else TD[i-1]
PresenceByte(r, i) == IF i = 1 THEN r.T0[1].value ELSE r.TD[i - 1].value

\* the bit of weight w is set in the byte v
HasBit(v, w) == (v \div w) % 2 = 1

\* the indices a dictionary uses or could use
Indices(r) ==
  (1..r.pn) \cup DOMAIN r.TA \cup DOMAIN r.TB \cup DOMAIN r.TC \cup DOMAIN r.TD

RECURSIVE ChainValues(_, _)
\* the values TA[i], TB[i], TC[i], TD[i] of a dictionary for i = from, from+1, ...
ChainValues(r, from) ==
  IF from > r.pn THEN << >>
  ELSE (IF from \in DOMAIN r.TA THEN << r.TA[from].value >> ELSE << >>)
       \o (IF from \in DOMAIN r.TB THEN << r.TB[from].value >> ELSE << >>)
       \o (IF from \in DOMAIN r.TC THEN << r.TC[from].value >> ELSE << >>)
       \o (IF from \in DOMAIN r.TD THEN << r.TD[from].value >> ELSE << >>)
       \o ChainValues(r, from + 1)

C10_ChainLength ==
  \A p \in Threads :
    Returned(p) =>
      /\ rec[p].pn = 1 + Cardinality(DOMAIN rec[p].TD)
      /\ DOMAIN rec[p].TD = 1..(rec[p].pn - 1)
      /\ (DOMAIN rec[p].TA \cup DOMAIN rec[p].TB \cup DOMAIN rec[p].TC) \subseteq 1..rec[p].pn
      /\ ~HasBit(PresenceByte(rec[p], rec[p].pn), 128)
      /\ \A i \in 1..(rec[p].pn - 1) : HasBit(PresenceByte(rec[p], i), 128)

\* a dictionary with three blocks and a TA[3]
C10_Witness ==
  \E p \in Threads :
    /\ Returned(p) /\ rec[p].pn = 3 /\ 3 \in DOMAIN rec[p].TA

\* the hexadecimal digits of a string, its separators left out
DigitsOf(s) == SelectSeq(s, LAMBDA c : c \notin {":", " "})

\* the value of a hexadecimal digit
DigitValue(c) ==
  CASE c = "0" -> 0 [] c = "1" -> 1 [] c = "2" -> 2 [] c = "3" -> 3 [] c = "4" -> 4
    [] c = "5" -> 5 [] c = "6" -> 6 [] c = "7" -> 7 [] c = "8" -> 8 [] c = "9" -> 9
    [] c \in {"a", "A"} -> 10 [] c \in {"b", "B"} -> 11 [] c \in {"c", "C"} -> 12
    [] c \in {"d", "D"} -> 13 [] c \in {"e", "E"} -> 14 [] c \in {"f", "F"} -> 15

\* C11: normalize raises ParseAtrException exactly when the string has an
\* odd number of hexadecimal digits; otherwise it returns the bytes that the
\* successive pairs of digits give, in order, each in 0..255.
C11_NormalizeOdd ==
  \A p \in Threads :
    pc[p] = "normalized" =>
      LET d == DigitsOf(arg[p])
      IN  /\ out[p] \in {"ok", "ParseAtrException"}
          /\ out[p] = "ParseAtrException" <=> Len(d) % 2 = 1
          /\ out[p] = "ok" =>
               /\ Len(val[p]) * 2 = Len(d)
               /\ \A k \in 1..Len(val[p]) :
                    /\ val[p][k] = 16 * DigitValue(d[2 * k - 1]) + DigitValue(d[2 * k])
                    /\ val[p][k] \in 0..255

\* normalize returned two bytes for a string with a separator and a
\* lower-case digit
C11_Witness ==
  \E p \in Threads :
    /\ pc[p] = "normalized" /\ out[p] = "ok" /\ Len(val[p]) = 2
    /\ \E i, j \in 1..Len(arg[p]) : arg[p][i] = ":" /\ arg[p][j] = "a"

\* C12: normalize of the string toHexString made, spaced or packed, of the
\* bytes normalize returned returns these bytes.
C12_RoundTrip ==
  [][\A p \in Threads :
       (pc[p] = "rendered" /\ pc'[p] = "renormalized") =>
         (out'[p] = "ok" /\ val'[p] = val[p])]_vars

\* normalize was run on the spaced string of two bytes, the first below 16
C12_Witness ==
  \E p \in Threads :
    /\ pc[p] = "renormalized" /\ out[p] = "ok"
    /\ Len(val[p]) = 2 /\ val[p][1] < 16
    /\ \E i \in 1..Len(arg[p]) : arg[p][i] = " "

\* C13 (as claimed): in a record parseATR returns, every TA[i], TB[i], TC[i]
\* and TD[i] has a description, and that of a TD[i] with i > 5 is the one
\* TDn gives.
C13_AllDescribed ==
  \A p \in Threads :
    Parsed(p) =>
      /\ \A d \in {rec[p].TA, rec[p].TB, rec[p].TC, rec[p].TD} :
           \A i \in DOMAIN d : d[i].description # << >>
      /\ \A i \in DOMAIN rec[p].TD :
           i > 5 => rec[p].TD[i].description = << TDn(i, rec[p].TD[i].value, T).msg >>

\* the bytes TS, T0, TA[1], ..., the historical bytes, TCK and the extra
\* bytes of a dictionary, one after the other (an absent TCK or extra is
\* an empty sequence)
FieldBytes(r) ==
  << r.TS[1].value, r.T0[1].value >> \o ChainValues(r, 1) \o r.hb[1].value
  \o (IF r.TCK = << >> THEN << >> ELSE << r.TCK[1].value >>) \o r.extra

\* the index of the last byte a dictionary expects: TS, T0, the interface
\* bytes, hbn historical bytes and TCK when it is expected
ExpectedEnd(r) == 2 + NumInterface(r) + r.hbn + (IF r.TCK = << >> THEN 0 ELSE 1)

\* C14: when decomposeATR returns with the historical bytes complete and TCK
\* not the sentinel, the fields of the dictionary, one after the other, are
\* the bytes of the input, and extra holds exactly the bytes beyond the
\* expected end (none: no extra).
C14_NoByteLost ==
  \A p \in Threads :
    (/\ Returned(p)
     /\ Len(rec[p].hb[1].value) = rec[p].hbn
     /\ (rec[p].TCK = << >> \/ rec[p].TCK[1].value # -1)) =>
      \A input \in {normalize(arg[p]).value} :
        /\ FieldBytes(rec[p]) = input
        /\ rec[p].extra = SubSeq(input, ExpectedEnd(rec[p]) + 1, Len(input))

\* a dictionary of decomposeATR with a TCK and an extra byte after it
C14_Witness ==
  \E p \in Threads :
    /\ Returned(p) /\ pc[p] = "decomposed"
    /\ rec[p].TCK # << >> /\ rec[p].TCK[1].value # -1
    /\ rec[p].extra # << >>

TrailerText ==
  << "    Mandatory status indicator (3 last bytes)\n",
     "      LCS (life card cycle): %d (%s)\n",
     "      SW: %s" >>
TrailerArgs(t) == << Num(t[1]), Str(<< life_cycle_status(t[1]) >>), SW(t[2], t[3]) >>

\* C16: of a block of category 0x00 with fewer than 3 bytes after the
\* category byte, the analysis returns the warning with their number and
\* neither trailer nor TLV entry; with 3 bytes or more, it decodes the bytes
\* between the category byte and the last 3 as the walk of a block of
\* category 0x80 decodes them on their own, then the last 3 as the trailer.
C16_Trailer ==
  \A p \in Threads :
    (pc[p] = "analysed" /\ arg[p] # << >> /\ arg[p][1] = 0) =>
      LET rest == Tail(arg[p])
          n    == Len(rest)
      IN  IF n < 3
          THEN /\ out[p] = "ok"
               /\ val[p].warning =
                    << Warning("Error in the ATR: expecting 3 bytes and got %d", n) >>
               /\ val[p].desc.text =
                    << " (compact TLV data object)\n",
                       "Error in the ATR: expecting 3 bytes and got %d" >>
               /\ val[p].desc.args = << Num(n) >>
          ELSE \A w \in {analyse_historical_bytes(<< 128 >> \o SubSeq(rest, 1, n - 3))} :
                 /\ out[p] = w.out
                 /\ out[p] = "ok" =>
                      /\ val[p].desc.text = w.desc.text \o TrailerText
                      /\ val[p].desc.args = w.desc.args \o TrailerArgs(SubSeq(rest, n - 2, n))
                      /\ val[p].warning = w.warning

\* the analysis of a block of category 0x00 whose one byte before the
\* trailer announces a tag 4 of 2 value bytes
C16_Witness ==
  \E p \in Threads :
    /\ pc[p] = "analysed" /\ out[p] = "ok"
    /\ Len(arg[p]) = 5 /\ arg[p][1] = 0 /\ arg[p][2] = 66 /\ arg[p][3] = 129

\* the printable bytes of a block, the others replaced by a dot
AsciiWithDots(b) == [k \in 1..Len(b) |-> IF b[k] \in 32..126 THEN b[k] ELSE 46]

\* a description has a TLV entry
HasTlvEntry(text) == \E k \in 1..Len(text) : text[k] = "    Tag: "

\* C17: the analysis of a block decodes it by its category byte alone: 0x00
\* and 0x80 as compact TLV (and only these run the walk), 0x10 with the one
\* byte that follows as the DIR data reference, 0x81..0x8F as reserved with
\* nothing decoded, every other value as proprietary with the bytes that
\* follow as ASCII with dots; it raises only when the byte that 0x10
\* announces is missing or when the walk raises.
C17_CategoryDispatch ==
  \A p \in Threads :
    (pc[p] = "analysed" /\ arg[p] # << >>) =>
      LET c    == arg[p][1]
          rest == Tail(arg[p])
          text == val[p].desc.text
          args == val[p].desc.args
      IN  /\ out[p] \in {"ok", "IndexError"}
          /\ out[p] = "IndexError" => c \in {0, 16, 128}
          /\ (c = 16 /\ out[p] = "IndexError") <=> (c = 16 /\ rest = << >>)
          /\ out[p] = "ok" =>
               /\ val[p].desc.kind = "full" \/ (c = 0 /\ Len(rest) < 3)
               /\ val[p].desc.kind = "full" =>
                    val[p].desc.left = << "  Category indicator byte: 0x" >> \o Hex2(c)
               /\ c \in {0, 128} <=> text[1] = " (compact TLV data object)\n"
               /\ HasTlvEntry(text) => c \in {0, 128}
               /\ (c = 128 /\ rest # << >>) => HasTlvEntry(text)
               /\ c = 16 =>
                    /\ text = << " (next byte is the DIR data reference)\n",
                                 "   DIR data reference: %d" >>
                    /\ args = << Num(rest[1]) >>
               /\ c \in 129..143 =>
                    /\ text = << " (Reserved for future use)" >>
                    /\ args = << >>
               /\ c \notin ({0, 16, 128} \cup (129..143)) =>
                    /\ text = << " (proprietary format) \"%s\"" >>
                    /\ args = << Asc(AsciiWithDots(rest)) >>

\* the analysis of a block of category 0x90 with a byte after it
C17_Witness ==
  \E p \in Threads :
    /\ pc[p] = "analysed" /\ out[p] = "ok"
    /\ Len(arg[p]) = 2 /\ arg[p][1] = 144 /\ arg[p][2] = 66

\* C18 (as claimed): a call of compact_tlv on a block whose tag/length byte
\* announces more value bytes than the block has left does not raise.
C18_SafeGet ==
  \A p \in Threads :
    (pc[p] = "tlv" /\ arg[p] # << >> /\ arg[p][1] % 16 > Len(arg[p]) - 1) =>
      out[p] = "ok"

\* the number of bytes one step of the walk takes from a block: the
\* tag/length byte and as many value bytes as its low nibble says, or as
\* are left
StepBytes(b) ==
  LET len == b[1] % 16
      rem == Len(b) - 1
  IN  1 + (IF len < rem THEN len ELSE rem)

RECURSIVE Steps(_)
\* the number of such steps that empty a block
Steps(b) == IF b = << >> THEN 0 ELSE 1 + Steps(SubSeq(b, StepBytes(b) + 1, Len(b)))

\* the number of TLV entries of a description
TlvEntries(text) == Cardinality({k \in 1..Len(text) : text[k] = "    Tag: "})

\* C19: a call of compact_tlv takes from the block the tag/length byte and
\* min(length, bytes left) value bytes, tag and length being the high and
\* the low nibble of the first byte, so that the block gets shorter; the
\* walk of a block of category 0x80 has the entries of the steps that empty
\* the block, at most as many as the block has bytes.
C19_StepConsumes ==
  \A p \in Threads :
    /\ (pc[p] = "tlv" /\ arg[p] # << >>) =>
         /\ val[p].hb = SubSeq(arg[p], StepBytes(arg[p]) + 1, Len(arg[p]))
         /\ Len(val[p].hb) < Len(arg[p])
         /\ out[p] = "ok" =>
              /\ val[p].text[2] = ToString(arg[p][1] \div 16)
              /\ val[p].text[4] = ToString(arg[p][1] % 16)
    /\ (pc[p] = "analysed" /\ out[p] = "ok" /\ arg[p] # << >> /\ arg[p][1] = 128) =>
         /\ TlvEntries(val[p].desc.text) = Steps(Tail(arg[p]))
         /\ TlvEntries(val[p].desc.text) <= Len(arg[p]) - 1

\* the call of compact_tlv on [101, 162, 8, 1, 1, 82] has left nothing
C19_Witness ==
  \E p \in Threads :
    /\ pc[p] = "tlv" /\ out[p] = "ok"
    /\ arg[p] = << 101, 162, 8, 1, 1, 82 >>
    /\ val[p].hb = << >>

\* C20 (as claimed): in a decode T is set once for each TD[i], in the order
\* of i, so that T is after the decode the low nibble of the last TD[i],
\* and every TA[n], TB[n], TC[n] with n >= 3 is described as TAn, TBn, TCn
\* describe it with T the low nibble of TD[n-1].
C20_OncePerTD ==
  \A p \in Threads :
    Parsed(p) =>
      /\ DOMAIN rec[p].TD # {} => T = rec[p].TD[rec[p].pn - 1].value % 16
      /\ \A n \in 3..rec[p].pn :
           LET Tn == rec[p].TD[n - 1].value % 16
           IN  /\ n \in DOMAIN rec[p].TA =>
                    rec[p].TA[n].description = << TAn(n, rec[p].TA[n].value, Tn) >>
               /\ n \in DOMAIN rec[p].TB =>
                    rec[p].TB[n].description = << TBn(n, rec[p].TB[n].value, Tn) >>
               /\ n \in DOMAIN rec[p].TC =>
                    rec[p].TC[n].description = << TCn(n, rec[p].TC[n].value, Tn) >>


\* ----------------------------------------------------------------- C21

\* the halves of a TA1 byte: the index of Fi and the index of Di
FiIndex(v) == v \div 16
DiIndex(v) == v % 16
InvalidTA1(v) == FiIndex(v) \in {7, 8, 14, 15} \/ DiIndex(v) \in {0} \cup (10 .. 15)

\* C21: for every TA1 value v, with Fi looked up by v >> 4 and Di by v & 0xF,
\* the reserved value is met exactly for an Fi index in {7, 8, 14, 15} or a Di
\* index in {0, 10..15}; TA1 then reports INVALID VALUE with the two values
\* (Fi, Di) only, and otherwise Fi, Di, the cycles per ETU Fi/Di and the FMax
\* of the Fi index; v = 0x11 gives 372, 1, 372 cycles per ETU and FMax 5.
C21_TA1Table ==
  \A p \in Threads : pc[p] = "TA1" =>
    LET v  == arg[p][1]
        Fi == Fi_tab[FiIndex(v) + 1]
        Di == Di_tab[DiIndex(v) + 1]
        a  == val[p].args
    IN  /\ InvalidTA1(v) <=> RFU \in {Fi, Di}
        /\ InvalidTA1(v) =>
             /\ val[p].text = << "Fi=%s, Di=%s", ", INVALID VALUE" >>
             /\ a = << Fi, Di >>
        /\ ~InvalidTA1(v) =>
             /\ val[p].text[2] # ", INVALID VALUE"
             /\ Len(a) = 6
             /\ a[1] = Fi /\ a[2] = Di
             /\ a[3].k = "num" /\ a[3].n * Di.n = Fi.n * a[3].d
             /\ a[6] = FMax_tab[FiIndex(v) + 1] /\ a[6] # RFU
        /\ v = 17 =>
             /\ a[1] = Num(372) /\ a[2] = Num(1)
             /\ a[3].n = 372 * a[3].d
             /\ a[6] = Num(5)

\* TA1 was called with a valid value whose two halves differ, and with an
\* invalid one
C21_Witness ==
  \E p \in Threads :
    /\ pc[p] = "TA1"
    /\ arg[p] = << 150 >>
    /\ val[p].args[1] = Num(512) /\ val[p].args[2] = Num(32)
    /\ val[p].args[3].n = 16 * val[p].args[3].d

\* ----------------------------------------------------------------- C22

\* the class list of the low 5 bits of v
ClassList(v) ==
  << "(3G) " >>
  \o (IF HasBit(v, 1) THEN << "A 5V " >> ELSE << >>)
  \o (IF HasBit(v, 2) THEN << "B 3V " >> ELSE << >>)
  \o (IF HasBit(v, 4) THEN << "C 1.8V " >> ELSE << >>)
  \o (IF HasBit(v, 8) THEN << "D RFU " >> ELSE << >>)
  \o (IF HasBit(v, 16) THEN << "E RFU" >> ELSE << >>)

\* the clock stop preference of the top 2 bits of v
ClockStop(v) ==
  CASE v \div 64 = 0 -> "not supported"
    [] v \div 64 = 1 -> "state L"
    [] v \div 64 = 2 -> "state H"
    [] v \div 64 = 3 -> "no preference"

\* C22: for n >= 3 and every v, TAn depends on (v, T) only: with T = 1 it
\* reports IFSC = v, and with any other T the clock stop preference of the top
\* 2 bits of v and the class list of the low 5 bits of v; bit 5 has no effect.
C22_TAnByT ==
  \A p \in Threads : pc[p] = "TAn" =>
    LET v == arg[p][2]
    IN  /\ arg[p][1] >= 3
        /\ T = 1 => val[p] = Msg(<< "IFSC: %s" >>, << Num(v) >>)
        /\ T # 1 =>
             /\ val[p].text = << "Clock stop: %s - Class accepted by the card: %s" >>
             /\ val[p].args = << Str(<< ClockStop(v) >>), Str(ClassList(v)) >>
             /\ val[p].args[2] = Str(ClassList(BitXor(v, 32)))

\* TAn was called with bit 5 set and bit 4 clear after a TDn that left T = 0,
\* and it was called with T = 1
C22_Witness ==
  \E p \in Threads :
    /\ pc[p] = "TAn"
    /\ T = 0
    /\ arg[p] = << 4, 161 >>
    /\ val[p].args = << Str(<< "state H" >>), Str(<< "(3G) ", "A 5V " >>) >>

\* ----------------------------------------------------------------- C23

\* C23: for every life cycle status byte, life_cycle_status returns one text
\* by the table: 0 no information, 1 creation, 3 initialisation, 4 and 6
\* operational (deactivated), 5 and 7 operational (activated), 12..15
\* termination, above 15 proprietary, and 2 and 8..11 unknown.
C23_LifeCycleTable ==
  \A p \in Threads : pc[p] = "life_cycle_status" =>
    LET lcs == arg[p][1]
    IN  val[p] = CASE lcs = 0 -> "No information given"
                   [] lcs = 1 -> "Creation state"
                   [] lcs = 3 -> "Initialisation state"
                   [] lcs \in {4, 6} -> "Operational state (deactivated)"
                   [] lcs \in {5, 7} -> "Operational state (activated)"
                   [] lcs \in 12 .. 15 -> "Termination state"
                   [] lcs > 15 -> "Proprietary"
                   [] lcs \in {2, 8, 9, 10, 11} -> "Unknown"

\* life_cycle_status was called with the last termination value
C23_Witness ==
  \E p \in Threads :
    /\ pc[p] = "life_cycle_status"
    /\ arg[p] = << 15 >>
    /\ val[p] = "Termination state"


\* ----------------------------------------------------------------- C24

\* the sequence d was decomposed into expects a checksum, ends with its TCK
\* and has no extra byte
EndsWithTck(d) ==
  /\ d.out = "ok"
  /\ d.rec.TCK # << >>
  /\ d.rec.TCK[1].value = d.rec.atr[Len(d.rec.atr)]
  /\ d.rec.extra = << >>

\* C24 (as claimed): for every ATR in which a checksum is expected, TCK is the
\* final byte and no extra byte follows, parseATR annotates the TCK field with
\* "correct checksum" if and only if the XOR of the bytes T0 to TCK is 0.
C24_CorrectIffXorZero ==
  \A p \in Threads :
    pc[p] = "done" =>
      \A d \in {decomposeATR(arg[p])} :
        EndsWithTck(d) =>
          ((out[p] = "ok" /\ rec[p].TCK[1].description = CorrectChecksum)
             <=> XorAll(Tail(d.rec.atr)) = 0)

\* C24, for the calls that return: the annotation of every returned record
\* follows the rule.
C24_ReturnedIffXorZero ==
  \A p \in Threads :
    (Parsed(p) /\ EndsWithTck([out |-> "ok", rec |-> rec[p]])) =>
      (rec[p].TCK[1].description = CorrectChecksum <=> XorAll(Tail(rec[p].atr)) = 0)

\* an ATR whose XOR from T0 to TCK is 0 was decoded and annotated
C24_Witness ==
  \E p \in Threads :
    /\ Parsed(p)
    /\ rec[p].atr = << 59, 129, 1, 128, 0 >>
    /\ rec[p].TCK[1].description = CorrectChecksum


\* ----------------------------------------------------------------- C25

\* the bytes the walk of thread p runs on
WalkBytes(p) == val[p].atr_txt

\* thread p runs one pass of the loop
Pass(p) == pc[p] = "walking" /\ pc'[p] = "walking" /\ val'[p] # val[p]

\* C25: the walk of decomposeATR terminates on every finite sequence: a pass
\* that does not stop the walk reads a TDi and moves the cursor forward by one
\* byte or more, the cursor never moves backwards, the walk has run at most as
\* many passes as the sequence has bytes, and it ends, by the absence of a TDi
\* or past the end of the sequence, whatever the presence bits say.
C25_WalkTerminates ==
  /\ [][\A p \in Threads : Pass(p) =>
          /\ val'[p].w.iters = val[p].w.iters + 1
          /\ val'[p].w.pointer >= val[p].w.pointer
          /\ (~val'[p].w.stop /\ ~val'[p].w.err) =>
               /\ val'[p].w.pointer >= val[p].w.pointer + 1
               /\ val'[p].w.pointer < Len(WalkBytes(p))
               /\ val'[p].w.pn = val[p].w.pn + 1
               /\ val[p].w.pn \in DOMAIN val'[p].w.TD
               /\ val'[p].w.TD[val[p].w.pn].value = WalkBytes(p)[val'[p].w.pointer + 1]
               /\ val'[p].w.TDi = WalkBytes(p)[val'[p].w.pointer + 1]
          /\ val'[p].w.stop => ~TDpresent(val[p].w.TDi)
          /\ val'[p].w.err => val'[p].w.pointer >= Len(WalkBytes(p))]_vars
  /\ [](\A p \in Threads : pc[p] = "walking" =>
          /\ val[p].w.iters <= Len(WalkBytes(p))
          /\ val[p].w.iters <= val[p].w.pointer)
  /\ \A p \in Threads : (pc[p] = "walking") ~> (pc[p] = "decomposed")

\* the walk has run as many passes as a sequence of MaxWalk TDi allows, each
\* of them reading a TDi
C25_Witness ==
  \E p \in Threads :
    /\ pc[p] = "walking"
    /\ val[p].atr_txt = << 59, 128, 128, 128, 128 >>
    /\ val[p].w.iters = 3
    /\ val[p].w.pointer = 4
    /\ ~val[p].w.stop /\ ~val[p].w.err

====
